---------------------------- MODULE Spec2Model ----------------------------
(***************************************************************************)
(* Model of the live caption translator (app/main.py, app/session.py).     *)
(*                                                                         *)
(* Times are integers counting milliseconds, so that r2 (rounding to two   *)
(* decimals, i.e. to 10 ms) is a real conversion.  Texts are sequences of  *)
(* one-character strings, so that strip, join, clean_en and the trailing   *)
(* period of flush are computed on characters.                             *)
(***************************************************************************)
EXTENDS Integers, Sequences, FiniteSets, TLC

(***************************************************************************)
(* Bounds of the model (not program constants).                            *)
(***************************************************************************)
MaxParts == 3
MaxChunks == 2
MaxPublish == 3

(***************************************************************************)
(* Program constants.                                                      *)
(***************************************************************************)
PeriodThreshold == 40
WsMinWindow == 10000
WsMaxWindow == 15000
WsMinChars == 25
DefMinWindow == 8000
DefMaxWindow == 12000
DefMinChars == 20

(***************************************************************************)
(* Python's None / optional values: <<>> is None, <<x>> is the value x.    *)
(***************************************************************************)
None == << >>

Some(x) == << x >>

\* Python's  `v or 0.0`  on an optional number
OrZero(o) == IF o = None THEN 0 ELSE o[1]

(***************************************************************************)
(* Texts.                                                                  *)
(***************************************************************************)
Rep(n, c) == [i \in 1..n |-> c]

Punct == {".", "?", "!"}

RECURSIVE LStrip(_)
LStrip(s) == IF s # << >> /\ Head(s) = " " THEN LStrip(Tail(s)) ELSE s

RECURSIVE RStrip(_)
RStrip(s) ==
    IF s # << >> /\ s[Len(s)] = " " THEN RStrip(SubSeq(s, 1, Len(s) - 1)) ELSE s

\* str.strip()
Strip(s) == RStrip(LStrip(s))

\* re.sub(r"\s+", " ", s): every run of whitespace becomes one blank
RECURSIVE CollapseWs(_)
CollapseWs(s) ==
    IF Len(s) < 2 THEN s
    ELSE IF s[1] = " " /\ s[2] = " " THEN CollapseWs(Tail(s))
    ELSE << s[1] >> \o CollapseWs(Tail(s))

\* number of "." characters that end s
RECURSIVE TrailingDots(_)
TrailingDots(s) ==
    IF s # << >> /\ s[Len(s)] = "."
    THEN 1 + TrailingDots(SubSeq(s, 1, Len(s) - 1))
    ELSE 0

\* re.sub(r"\.{3,}$", ".", s)
CollapseDots(s) ==
    LET k == TrailingDots(s)
    IN  IF k >= 3 THEN SubSeq(s, 1, Len(s) - k) \o << "." >> ELSE s

\* CaptionBuffer._ends_with_punct / re.search(r"[.!?]$", s)
EndsWithPunct(s) == s # << >> /\ s[Len(s)] \in Punct

clean_en(s) ==
    IF s = << >> THEN s
    ELSE LET a == CollapseDots(Strip(CollapseWs(s)))
         IN  IF Len(a) > PeriodThreshold /\ ~EndsWithPunct(a)
             THEN a \o << "." >>
             ELSE a

\* " ".join(parts)
RECURSIVE JoinBlank(_)
JoinBlank(parts) ==
    IF parts = << >> THEN << >>
    ELSE IF Len(parts) = 1 THEN parts[1]
    ELSE parts[1] \o << " " >> \o JoinBlank(Tail(parts))

\* float(f"{x:.2f}"): round to two decimals = to a multiple of 10 ms.
\* (The inputs of the model never end in 5 ms, so no tie is rounded.)
r2(x) == ((x + 5) \div 10) * 10

Max(a, b) == IF a >= b THEN a ELSE b

(***************************************************************************)
(* CaptionBuffer.                                                          *)
(***************************************************************************)
\* a reset that forgets the accumulated duration
CaptionBuffer_reset_keeps_accum(b) ==
    [b EXCEPT !.en_parts = << >>, !.t0 = None, !.t1 = None]

CaptionBuffer_reset(b) ==
    [b EXCEPT !.en_parts = << >>, !.t0 = None, !.t1 = None, !.accum_sec = 0]

CaptionBuffer_init(minw, maxw, minc) ==
    CaptionBuffer_reset(
        [min_window |-> minw, max_window |-> maxw, min_chars |-> minc,
         en_parts |-> << >>, t0 |-> None, t1 |-> None, accum_sec |-> 0])

\* an add that takes a fragment without text too
CaptionBuffer_add_any(b, seg_t0, seg_t1, text_en) ==
    [b EXCEPT
       !.t0 = IF b.t0 = None THEN Some(seg_t0) ELSE b.t0,
       !.t1 = Some(seg_t1),
       !.accum_sec = b.accum_sec + Max(0, seg_t1 - seg_t0),
       !.en_parts = Append(b.en_parts, Strip(text_en))]

\* an add that measures the window from its start to its end
CaptionBuffer_add_span(b, seg_t0, seg_t1, text_en) ==
    IF text_en = << >> THEN b
    ELSE [b EXCEPT
            !.t0 = IF b.t0 = None THEN Some(seg_t0) ELSE b.t0,
            !.t1 = Some(seg_t1),
            !.accum_sec = Max(0, seg_t1 - (IF b.t0 = None THEN seg_t0 ELSE b.t0[1])),
            !.en_parts = Append(b.en_parts, Strip(text_en))]

\* CaptionBuffer.add (lines 94-101)
CaptionBuffer_add(b, seg_t0, seg_t1, text_en) ==
    IF text_en = << >> THEN b
    ELSE [b EXCEPT
            !.t0 = IF b.t0 = None THEN Some(seg_t0) ELSE b.t0,
            !.t1 = Some(seg_t1),
            !.accum_sec = b.accum_sec + Max(0, seg_t1 - seg_t0),
            !.en_parts = Append(b.en_parts, Strip(text_en))]

CaptionBuffer_joined_en(b) == Strip(JoinBlank(b.en_parts))

\* a ready() without the min_chars floor
CaptionBuffer_ready_no_floor(b) ==
    LET en == CaptionBuffer_joined_en(b)
    IN  \/ b.accum_sec >= b.max_window
        \/ b.accum_sec >= b.min_window /\ EndsWithPunct(en)

\* a ready() without the hard cap
CaptionBuffer_ready_soft_only(b) ==
    LET en == CaptionBuffer_joined_en(b)
    IN  /\ Len(en) >= b.min_chars
        /\ b.accum_sec >= b.min_window
        /\ EndsWithPunct(en)

CaptionBuffer_ready(b) ==
    LET en == CaptionBuffer_joined_en(b)
    IN  IF Len(en) < b.min_chars THEN FALSE
        ELSE IF b.accum_sec >= b.max_window THEN TRUE
        ELSE IF b.accum_sec >= b.min_window /\ EndsWithPunct(en) THEN TRUE
        ELSE FALSE

\* a flush() that adds the period from 40 characters on
CaptionBuffer_flush_en_ge(b) ==
    LET en == CaptionBuffer_joined_en(b)
    IN  IF en # << >> /\ ~EndsWithPunct(en) /\ Len(en) >= PeriodThreshold
        THEN en \o << "." >>
        ELSE en

\* the text flush() returns
CaptionBuffer_flush_en(b) ==
    LET en == CaptionBuffer_joined_en(b)
    IN  IF en # << >> /\ ~EndsWithPunct(en) /\ Len(en) > PeriodThreshold
        THEN en \o << "." >>
        ELSE en

\* the span flush() returns
CaptionBuffer_flush_seg(b) == << OrZero(b.t0), OrZero(b.t1) >>

\* the buffer flush() leaves
CaptionBuffer_flush(b) == CaptionBuffer_reset(b)


(***************************************************************************)
(* External collaborators and the inputs the model draws.                  *)
(***************************************************************************)
SID == {"a", "b"}
QID == {1, 2}
Conn == {1, 2}

\* the /events clients of the application runs
SseIds == {1}

\* raw texts the speech-to-text service returns
TxtEmpty == << >>
TxtShort == << "h", "i", " " >>
TxtSentence == Rep(25, "s") \o << ".", ".", "." >>
TxtNoPunct == Rep(26, "n")

\* what transcribe_chunk returns: text and segments (start/end in ms)
Asr(text, segments) == [failed |-> FALSE, text |-> text, segments |-> segments]

Seg(start, end) == [start |-> start, end |-> end]

\* transcribe_chunk raises (too small, undecodable, upstream failure)
AsrFail == [failed |-> TRUE]

AsrOk ==
    { Asr(TxtEmpty, << >>),
      Asr(TxtEmpty, << Seg(1000, 6000) >>),
      Asr(TxtShort, << Seg(0, 2004) >>),
      Asr(TxtSentence, << Seg(0, 6000), Seg(6000, 12000) >>),
      Asr(TxtNoPunct, << Seg(1000, 6000), Seg(6000, 16000) >>) }

AsrResults == {AsrFail} \cup AsrOk

\* a /chunk request: is the upload at least 100 bytes, what transcribe_chunk
\* does with it, and whether translate_text succeeds if it is called
ChunkInputs ==
    { << FALSE, AsrFail, TRUE >>, << TRUE, AsrFail, TRUE >> } \cup
    { << TRUE, a, t >> : a \in AsrOk, t \in BOOLEAN }

\* translate_text: "" for empty input, otherwise the service's answer
translate_text(english_text) ==
    IF english_text = << >> THEN << >> ELSE << "K", "O", ":" >> \o english_text

(***************************************************************************)
(* State.                                                                  *)
(***************************************************************************)
VARIABLES
    store,              \* SESSION.store: sid -> None | Some([created_at, entries])
    SESSION_TIMELINE,   \* sid -> None | Some(cursor)
    BUFFERS,            \* sid -> None | Some(CaptionBuffer)
    chunkLog,           \* history: the fragments /chunk built, per session
    resp,               \* the last HTTP response
    subs,               \* BROKER._subs: sid -> set of queues ({} = no key)
    msg_id,             \* BROKER._msg_id
    queues,             \* every asyncio.Queue: the messages put on it so far
    published,          \* history: every message publish() built, with its session
    sse,                \* the /events generators, one per queue
    ws,                 \* the /ws/stream handlers: locals and position
    wsOut,              \* frames sent on each websocket
    wsLog,              \* history: the fragments each websocket handler built
    nChunks,            \* number of chunks transcribed so far
    chunkReq,           \* the /chunk requests in flight, step by step (SpecChunk)
    pubReq,             \* the publish() calls in flight, step by step (SpecPublish)
    subHist,            \* history: when each queue was subscribed/unsubscribed (SpecBroker)
    cb,                 \* a CaptionBuffer driven directly (SpecBuf)
    cbRet,              \* what the last call on cb returned
    cbHist              \* history: every add() call on cb

httpVars == << store, SESSION_TIMELINE, BUFFERS, chunkLog, resp >>

brokerVars == << msg_id, queues, published >>

wsVars == << ws, wsOut, wsLog >>

bufVars == << cb, cbRet, cbHist >>

appVars == << httpVars, subs, brokerVars, sse, wsVars, nChunks >>

vars == << appVars, subHist, bufVars, chunkReq, pubReq >>

(***************************************************************************)
(* SessionStore (app/session.py).                                          *)
(***************************************************************************)
\* datetime.utcnow(): the creation order stands for the timestamp
utcnow(st) == Cardinality({s \in SID : st[s] # None}) + 1

\* a start that empties the entry list of an existing session
SessionStore_start_reset(st, sid) ==
    IF st[sid] # None
    THEN [st EXCEPT ![sid] = Some([st[sid][1] EXCEPT !.entries = << >>])]
    ELSE [st EXCEPT ![sid] = Some([created_at |-> utcnow(st), entries |-> << >>])]

\* SessionStore.start (session.py 9-14)
SessionStore_start(st, sid) ==
    IF st[sid] # None THEN st
    ELSE [st EXCEPT ![sid] = Some([created_at |-> utcnow(st), entries |-> << >>])]

\* an append that opens the session but stores no entry
SessionStore_append_nothing(st, sid, t0, t1, text_en, text_ko) ==
    SessionStore_start(st, sid)

\* an append that stores the entry in every open session
SessionStore_append_all(st, sid, t0, t1, text_en, text_ko) ==
    LET s1 == SessionStore_start(st, sid)
        e  == [t0 |-> t0, t1 |-> t1, text_en |-> text_en, text_ko |-> text_ko]
    IN  [s \in SID |-> IF s1[s] = None THEN None
                       ELSE Some([s1[s][1] EXCEPT !.entries = Append(@, e)])]

\* SessionStore.append (session.py 16-21)
SessionStore_append(st, sid, t0, t1, text_en, text_ko) ==
    LET s1 == SessionStore_start(st, sid)
        e  == [t0 |-> t0, t1 |-> t1, text_en |-> text_en, text_ko |-> text_ko]
    IN  [s1 EXCEPT ![sid] = Some([s1[sid][1] EXCEPT !.entries = Append(@, e)])]

SessionStore_end(st, sid) == st

\* SessionStore.get (session.py 23-24): the session, or one without entries
SessionStore_get(st, sid) ==
    IF st[sid] = None THEN [entries |-> << >>] ELSE st[sid][1]

\* SESSION.get(sid)["entries"]
Entries(sid) == IF store[sid] = None THEN << >> ELSE store[sid][1].entries

(***************************************************************************)
(* EventBroker.                                                            *)
(***************************************************************************)
EventBroker_subscribe(sb, sid, q) == [sb EXCEPT ![sid] = @ \cup {q}]

\* an unsubscribe that registers a queue it does not find
EventBroker_unsubscribe_toggle(sb, sid, q) ==
    IF q \in sb[sid] THEN [sb EXCEPT ![sid] = @ \ {q}]
    ELSE [sb EXCEPT ![sid] = @ \cup {q}]

\* EventBroker.unsubscribe (lines 142-147): discard, under the key test
EventBroker_unsubscribe(sb, sid, q) == [sb EXCEPT ![sid] = @ \ {q}]

\* a snapshot that takes the queues of every session
EventBroker_snapshot_all(sb, sid) == UNION { sb[s] : s \in SID }

\* qs = list(self._subs.get(session_id, []))
EventBroker_snapshot(sb, sid) == sb[sid]

\* a counter that is not incremented
EventBroker_same_id(id) == id

\* self._msg_id += 1
EventBroker_next_id(id) == id + 1

\* The broker's counter and queues as one value: publish() maps it to the
\* next.  No await suspends between taking the snapshot and the last
\* put_nowait, and an asyncio.Lock that is never held across a suspension is
\* always free, so a publish is one step of the event loop.
Broker == [msg_id |-> msg_id, queues |-> queues, published |-> published]

EventBroker_publish(b, sb, sid, event_type, data) ==
    LET qs  == EventBroker_snapshot(sb, sid)
        id  == EventBroker_next_id(b.msg_id)
        msg == [type |-> event_type, data |-> data, id |-> id]
    IN  [msg_id    |-> id,
         queues    |-> [q \in QID |->
                          IF q \in qs THEN Append(b.queues[q], msg)
                          ELSE b.queues[q]],
         published |-> Append(b.published, [sid |-> sid, msg |-> msg])]

SetBroker(b) ==
    /\ msg_id' = b.msg_id
    /\ queues' = b.queues
    /\ published' = b.published

(***************************************************************************)
(* The application runs use one ingress: the REST handlers with their      *)
(* /events clients, or /ws/stream connections (the two share SESSION only).*)
(***************************************************************************)
NoResponse == "none"

HttpIdle == resp = NoResponse /\ \A q \in QID : sse[q].pc = "new"

WsIdle == \A c \in Conn : ws[c].pc = "new"

(***************************************************************************)
(* /events (sse_events): one generator, with its own queue, per client.    *)
(***************************************************************************)
SseNew == [pc |-> "new", sid |-> "a"]

\* q = await BROKER.subscribe(session_id)
sse_subscribe(q, sid) ==
    /\ WsIdle
    /\ sse[q].pc = "new"
    /\ subs' = EventBroker_subscribe(subs, sid, q)
    /\ sse' = [sse EXCEPT ![q] = [pc |-> "open", sid |-> sid]]
    /\ UNCHANGED << httpVars, brokerVars, wsVars, nChunks, subHist, bufVars, chunkReq, pubReq >>

\* the client went away: finally: await BROKER.unsubscribe(session_id, q);
\* the generator and its queue are gone
sse_disconnect(q) ==
    /\ sse[q].pc = "open"
    /\ subs' = EventBroker_unsubscribe(subs, sse[q].sid, q)
    /\ sse' = [sse EXCEPT ![q].pc = "closed"]
    /\ queues' = [queues EXCEPT ![q] = << >>]
    /\ UNCHANGED << httpVars, msg_id, published, wsVars, nChunks, subHist, bufVars, chunkReq, pubReq >>

(***************************************************************************)
(* REST handlers.  An async handler runs on the event loop until an await  *)
(* suspends it; /session/stop and /chunk hold no such await (publish does  *)
(* not suspend, transcribe_chunk and translate_text are blocking calls),   *)
(* so each is one step.                                                    *)
(***************************************************************************)
\* uuid.uuid4(): an id nothing has used before (which of the unused names it
\* is makes no difference: the first one)
FreshId(sid) ==
    /\ store[sid] = None
    /\ SESSION_TIMELINE[sid] = None
    /\ \A q \in QID : sse[q].pc = "new" \/ sse[q].sid # sid

uuid4 == IF FreshId("a") THEN "a" ELSE "b"

http_session_start(sid) ==
    /\ WsIdle
    /\ sid = uuid4
    /\ FreshId(sid)
    /\ store' = SessionStore_start(store, sid)
    /\ SESSION_TIMELINE' = [SESSION_TIMELINE EXCEPT ![sid] = Some(0)]
    /\ resp' = "started"
    /\ UNCHANGED << BUFFERS, chunkLog, subs, brokerVars, sse, wsVars, nChunks,
                    subHist, bufVars, chunkReq, pubReq >>

\* a placement that ignores the cursor
place_local_only(cursor, local) == local

\* g = cursor + local offset (lines 268-269 and 415-416)
place(cursor, local) == cursor + local

FirstStart(asr) == IF asr.segments # << >> THEN asr.segments[1].start ELSE 0

LastEnd(asr) ==
    IF asr.segments # << >> THEN asr.segments[Len(asr.segments)].end ELSE 0

BatchData(ft0, ft1, full_en, text_ko) ==
    [window |-> [t0 |-> r2(ft0), t1 |-> r2(ft1)], text_en |-> full_en,
     text_ko |-> text_ko]

\* lines 407-440 of /chunk, after the request was accepted and transcribed
chunk_ingest(sid, asr, tr_ok) ==
    LET text_en  == clean_en(Strip(asr.text))
        seg_t0   == FirstStart(asr)
        seg_t1   == LastEnd(asr)
        last_end == OrZero(SESSION_TIMELINE[sid])
        g_t0     == place(last_end, seg_t0)
        g_t1     == place(last_end, seg_t1)
        b1       == EventBroker_publish(Broker, subs, sid, "en_partial",
                        [t0 |-> r2(g_t0), t1 |-> r2(g_t1), text_en |-> text_en])
        buf0     == IF BUFFERS[sid] = None
                    THEN CaptionBuffer_init(WsMinWindow, WsMaxWindow, WsMinChars)
                    ELSE BUFFERS[sid][1]
        buf1     == CaptionBuffer_add(buf0, g_t0, g_t1, text_en)
        full_en  == CaptionBuffer_flush_en(buf1)
        seg      == CaptionBuffer_flush_seg(buf1)
    IN  /\ SESSION_TIMELINE' = [SESSION_TIMELINE EXCEPT ![sid] = Some(g_t1)]
        /\ chunkLog' = [chunkLog EXCEPT ![sid] = Append(@,
                          [s |-> seg_t0, e |-> seg_t1, text_en |-> text_en,
                           t0 |-> g_t0, t1 |-> g_t1,
                           ok |-> ~(CaptionBuffer_ready(buf1) /\ full_en # << >>
                                    /\ ~tr_ok)])]
        /\ nChunks' = nChunks + 1
        /\ IF CaptionBuffer_ready(buf1)
           THEN /\ BUFFERS' = [BUFFERS EXCEPT ![sid] = Some(CaptionBuffer_flush(buf1))]
                /\ IF full_en # << >> /\ ~tr_ok
                   THEN \* translate_text raises: the request ends with a 500
                        /\ SetBroker(b1)
                        /\ resp' = "server error"
                        /\ UNCHANGED store
                   ELSE /\ store' = SessionStore_append(store, sid, seg[1], seg[2],
                                        full_en, translate_text(full_en))
                        /\ SetBroker(EventBroker_publish(b1, subs, sid, "ko_batch",
                              BatchData(seg[1], seg[2], full_en,
                                        translate_text(full_en))))
                        /\ resp' = "ok"
           ELSE /\ BUFFERS' = [BUFFERS EXCEPT ![sid] = Some(buf1)]
                /\ SetBroker(b1)
                /\ resp' = "ok"
                /\ UNCHANGED store

\* a validity test that accepts every session id
session_known_always(tl, sid) == TRUE

\* session_id in SESSION_TIMELINE (lines 311 and 358)
session_known(tl, sid) == tl[sid] # None

http_upload_chunk(sid, blob_ok, asr, tr_ok) ==
    /\ WsIdle
    /\ UNCHANGED << subs, sse, wsVars, subHist, bufVars, chunkReq, pubReq >>
    /\ IF ~session_known(SESSION_TIMELINE, sid)
       THEN /\ resp' = "invalid session_id"
            /\ UNCHANGED << store, SESSION_TIMELINE, BUFFERS, chunkLog,
                            brokerVars, nChunks >>
       ELSE IF ~blob_ok
       THEN /\ resp' = "no content"
            /\ UNCHANGED << store, SESSION_TIMELINE, BUFFERS, chunkLog,
                            brokerVars, nChunks >>
       ELSE IF asr = AsrFail
       THEN /\ resp' = "ASR error"
            /\ UNCHANGED << store, SESSION_TIMELINE, BUFFERS, chunkLog,
                            brokerVars, nChunks >>
       ELSE /\ nChunks < MaxChunks
            /\ chunk_ingest(sid, asr, tr_ok)

http_session_stop(sid, tr_ok) ==
    /\ WsIdle
    /\ UNCHANGED << chunkLog, subs, sse, wsVars, nChunks, subHist, bufVars, chunkReq, pubReq >>
    /\ IF ~session_known(SESSION_TIMELINE, sid)
       THEN /\ resp' = "invalid session_id"
            /\ UNCHANGED << store, SESSION_TIMELINE, BUFFERS, brokerVars >>
       ELSE LET buf     == BUFFERS[sid]
                full_en == CaptionBuffer_flush_en(buf[1])
                seg     == CaptionBuffer_flush_seg(buf[1])
            IN  /\ BUFFERS' = [BUFFERS EXCEPT ![sid] = None]
                /\ IF buf # None /\ buf[1].en_parts # << >> /\ full_en # << >>
                   THEN IF ~tr_ok
                        THEN \* translate_text raises: caught, 500; the cursor stays
                             /\ resp' = "server error"
                             /\ UNCHANGED << store, SESSION_TIMELINE, brokerVars >>
                        ELSE /\ store' = SessionStore_end(
                                    SessionStore_append(store, sid, seg[1], seg[2],
                                        full_en, translate_text(full_en)), sid)
                             /\ SetBroker(EventBroker_publish(Broker, subs, sid,
                                    "ko_batch",
                                    BatchData(seg[1], seg[2], full_en,
                                              translate_text(full_en))))
                             /\ SESSION_TIMELINE' =
                                    [SESSION_TIMELINE EXCEPT ![sid] = None]
                             /\ resp' = "ok"
                   ELSE /\ store' = SessionStore_end(store, sid)
                        /\ SESSION_TIMELINE' = [SESSION_TIMELINE EXCEPT ![sid] = None]
                        /\ resp' = "ok"
                        /\ UNCHANGED brokerVars

(***************************************************************************)
(* /chunk step by step.  Every request is served by its own task on the    *)
(* one event loop.  A task keeps the loop until an await suspends it; the  *)
(* handler holds two awaits, both of BROKER.publish.  chunkReq.at[r].pc is *)
(* the await the task of request r stands at, and chunkReq.run is the task *)
(* that keeps the loop because its await did not suspend.                  *)
(***************************************************************************)
Req == {1, 2}

ReqNew ==
    [pc |-> "idle", sid |-> "a", idx |-> 0, g_t0 |-> 0, g_t1 |-> 0,
     text_en |-> << >>, batch |-> None]

ChunkReqNew == [run |-> None, at |-> [r \in Req |-> ReqNew]]

\* an await of publish() that always gives the loop away
publish_suspends_always == TRUE

\* Does `await BROKER.publish(...)` suspend the calling task?  publish()
\* awaits only the acquisition of self._lock; the lock is released before
\* the coroutine reaches any other await, so no task ever finds it taken and
\* acquire() returns at once; put_nowait never waits.
publish_suspends == FALSE

\* the event loop may run the task of request r
MayRun(r) == chunkReq.run = None \/ chunkReq.run = Some(r)

\* the task reached an await of publish(): it keeps the loop unless the
\* await suspends
AtPublish(r) == IF publish_suspends THEN None ELSE Some(r)

\* a /chunk request has been received and parsed; its handler has not run
chunk_arrive(r, sid) ==
    /\ chunkReq.at[r].pc = "idle"
    /\ chunkReq' = [chunkReq EXCEPT !.at[r] = [ReqNew EXCEPT !.pc = "received",
                                                            !.sid = sid]]
    /\ UNCHANGED << appVars, subHist, bufVars, pubReq >>

\* lines 356-420: from the entry of the handler to the await of
\* publish(en_partial)
chunk_begin(r, blob_ok, asr) ==
    LET sid      == chunkReq.at[r].sid
        text_en  == clean_en(Strip(asr.text))
        seg_t0   == FirstStart(asr)
        seg_t1   == LastEnd(asr)
        last_end == OrZero(SESSION_TIMELINE[sid])
        g_t0     == place(last_end, seg_t0)
        g_t1     == place(last_end, seg_t1)
    IN  /\ chunkReq.at[r].pc = "received"
        /\ MayRun(r)
        /\ UNCHANGED << store, BUFFERS, subs, brokerVars, sse, wsVars, subHist,
                        bufVars, pubReq >>
        /\ IF ~session_known(SESSION_TIMELINE, sid) \/ ~blob_ok \/ asr = AsrFail
           THEN /\ resp' = IF ~session_known(SESSION_TIMELINE, sid)
                           THEN "invalid session_id"
                           ELSE IF ~blob_ok THEN "no content" ELSE "ASR error"
                /\ chunkReq' = [chunkReq EXCEPT !.at[r] = ReqNew, !.run = None]
                /\ UNCHANGED << SESSION_TIMELINE, chunkLog, nChunks >>
           ELSE /\ nChunks < MaxChunks
                /\ nChunks' = nChunks + 1
                /\ SESSION_TIMELINE' = [SESSION_TIMELINE EXCEPT ![sid] = Some(g_t1)]
                /\ chunkLog' = [chunkLog EXCEPT ![sid] = Append(@,
                                  [s |-> seg_t0, e |-> seg_t1, text_en |-> text_en,
                                   t0 |-> g_t0, t1 |-> g_t1, ok |-> TRUE])]
                /\ chunkReq' = [chunkReq EXCEPT
                                  !.at[r] = [@ EXCEPT !.pc = "publish_partial",
                                                      !.idx = Len(chunkLog[sid]) + 1,
                                                      !.g_t0 = g_t0, !.g_t1 = g_t1,
                                                      !.text_en = text_en],
                                  !.run = AtPublish(r)]
                /\ resp' = resp

\* lines 420-434: publish(en_partial) runs, then the handler up to its
\* return or to the await of publish(ko_batch)
chunk_after_partial(r, tr_ok) ==
    LET q       == chunkReq.at[r]
        sid     == q.sid
        b1      == EventBroker_publish(Broker, subs, sid, "en_partial",
                       [t0 |-> r2(q.g_t0), t1 |-> r2(q.g_t1), text_en |-> q.text_en])
        buf0    == IF BUFFERS[sid] = None
                   THEN CaptionBuffer_init(WsMinWindow, WsMaxWindow, WsMinChars)
                   ELSE BUFFERS[sid][1]
        buf1    == CaptionBuffer_add(buf0, q.g_t0, q.g_t1, q.text_en)
        full_en == CaptionBuffer_flush_en(buf1)
        seg     == CaptionBuffer_flush_seg(buf1)
    IN  /\ q.pc = "publish_partial"
        /\ MayRun(r)
        /\ SetBroker(b1)
        /\ UNCHANGED << SESSION_TIMELINE, subs, sse, wsVars, nChunks, subHist,
                        bufVars, pubReq >>
        /\ IF CaptionBuffer_ready(buf1)
           THEN /\ BUFFERS' = [BUFFERS EXCEPT ![sid] = Some(CaptionBuffer_flush(buf1))]
                /\ IF full_en # << >> /\ ~tr_ok
                   THEN \* translate_text raises: the request ends with a 500
                        /\ chunkLog' = [chunkLog EXCEPT ![sid][q.idx].ok = FALSE]
                        /\ chunkReq' = [chunkReq EXCEPT !.at[r] = ReqNew,
                                                        !.run = None]
                        /\ resp' = "server error"
                        /\ UNCHANGED store
                   ELSE /\ store' = SessionStore_append(store, sid, seg[1], seg[2],
                                        full_en, translate_text(full_en))
                        /\ chunkReq' = [chunkReq EXCEPT
                              !.at[r] = [@ EXCEPT !.pc = "publish_batch",
                                  !.batch = Some(BatchData(seg[1], seg[2], full_en,
                                                     translate_text(full_en)))],
                              !.run = AtPublish(r)]
                        /\ UNCHANGED << chunkLog, resp >>
           ELSE /\ BUFFERS' = [BUFFERS EXCEPT ![sid] = Some(buf1)]
                /\ chunkReq' = [chunkReq EXCEPT !.at[r] = ReqNew, !.run = None]
                /\ resp' = "ok"
                /\ UNCHANGED << store, chunkLog >>

\* lines 434-440: publish(ko_batch) runs and the handler returns
chunk_after_batch(r) ==
    LET q == chunkReq.at[r]
    IN  /\ q.pc = "publish_batch"
        /\ MayRun(r)
        /\ SetBroker(EventBroker_publish(Broker, subs, q.sid, "ko_batch",
                                         q.batch[1]))
        /\ chunkReq' = [chunkReq EXCEPT !.at[r] = ReqNew, !.run = None]
        /\ resp' = "ok"
        /\ UNCHANGED << store, SESSION_TIMELINE, BUFFERS, chunkLog, subs, sse,
                        wsVars, nChunks, subHist, bufVars, pubReq >>

(***************************************************************************)
(* /ws/stream (ws_stream).  The handler is suspended where it awaits the   *)
(* socket: receive_bytes and every send_json.  pc names the await it is    *)
(* at; each action runs the code from one await to the next.               *)
(***************************************************************************)
WsNew ==
    [pc |-> "new", sid |-> "a", seq |-> 1, pending |-> None,
     buffer |-> CaptionBuffer_init(WsMinWindow, WsMaxWindow, WsMinChars),
     timeline_pos |-> 0, text_en |-> << >>, seg_t0 |-> 0, seg_t1 |-> 0,
     cur |-> None, batch |-> None]

\* the handler has returned after the WebSocketDisconnect clause (its locals
\* are gone)
WsDone(sid) == [WsNew EXCEPT !.pc = "done", !.sid = sid]

\* the handler has returned through except Exception, or with an exception
WsFailed(sid) == [WsNew EXCEPT !.pc = "failed", !.sid = sid]

SendPcs == {"send_final", "send_batch", "send_partial"}

\* a test that only asks whether there is a pending fragment
PendingAny(w) == w.pending # None

\* pending and pending["text_en"]
PendingHasText(w) == w.pending # None /\ w.pending[1].text_en # << >>

\* a promotion that puts the text of the chunk just received into the window
ws_promote_current(w) ==
    CaptionBuffer_add(w.buffer, w.pending[1].t0, w.pending[1].t1, w.text_en)

\* buffer.add(pending["t0"], pending["t1"], pending["text_en"]) (lines 255
\* and 284): the pending fragment enters the window
ws_promote(w) ==
    CaptionBuffer_add(w.buffer, w.pending[1].t0, w.pending[1].t1,
                      w.pending[1].text_en)

\* lines 268-272: place the chunk on the timeline and build cur
ws_make_cur(w) ==
    LET g_t0 == place(w.timeline_pos, w.seg_t0)
        g_t1 == place(w.timeline_pos, w.seg_t1)
    IN  [w EXCEPT !.cur = Some([seq |-> w.seq, t0 |-> r2(g_t0), t1 |-> r2(g_t1),
                                text_en |-> w.text_en]),
                  !.pc = "send_partial"]

WsLogEntry(w) ==
    [s |-> w.seg_t0, e |-> w.seg_t1, text_en |-> w.text_en,
     t0 |-> w.cur[1].t0, t1 |-> w.cur[1].t1]

Frame(type, f) ==
    [type |-> type, seq |-> f.seq, t0 |-> f.t0, t1 |-> f.t1, text_en |-> f.text_en]

ErrorFrame == [type |-> "error"]

\* a client connects (the connections are numbered in the order they connect)
ws_accept(c, sid) ==
    /\ HttpIdle
    /\ ws[c].pc = "new"
    /\ \A c2 \in Conn : c2 < c => ws[c2].pc # "new"
    /\ store' = SessionStore_start(store, sid)
    /\ ws' = [ws EXCEPT ![c] = [WsNew EXCEPT !.pc = "recv", !.sid = sid]]
    /\ UNCHANGED << brokerVars, bufVars, chunkReq, pubReq, SESSION_TIMELINE, BUFFERS, subs, sse, wsOut, wsLog, chunkLog, resp, nChunks, subHist >>

\* receive_bytes returns a frame; lines 238-248 (and 268-272 when nothing is
\* promoted)
ws_receive(c, asr) ==
    /\ ws[c].pc = "recv"
    /\ UNCHANGED << httpVars, brokerVars, bufVars, chunkReq, pubReq, subs, sse, subHist >>
    /\ IF asr = AsrFail
       THEN \* transcribe_chunk raises: except Exception sends an error frame
            /\ wsOut' = [wsOut EXCEPT ![c] = Append(@, ErrorFrame)]
            /\ ws' = [ws EXCEPT ![c] = WsFailed(ws[c].sid)]
            /\ UNCHANGED << wsLog, nChunks >>
       ELSE /\ nChunks < MaxChunks
            /\ nChunks' = nChunks + 1
            /\ wsOut' = wsOut
            /\ LET w1 == [ws[c] EXCEPT !.text_en = clean_en(Strip(asr.text)),
                                       !.seg_t0 = FirstStart(asr),
                                       !.seg_t1 = LastEnd(asr)]
               IN  IF PendingHasText(w1)
                   THEN /\ ws' = [ws EXCEPT ![c] = [w1 EXCEPT !.pc = "send_final"]]
                        /\ wsLog' = wsLog
                   ELSE /\ ws' = [ws EXCEPT ![c] = ws_make_cur(w1)]
                        /\ wsLog' = [wsLog EXCEPT ![c] =
                                        Append(@, WsLogEntry(ws_make_cur(w1)))]

\* the en_final frame was sent; lines 255-259, then 260 or 266-272
ws_sent_final(c, tr_ok) ==
    /\ ws[c].pc = "send_final"
    /\ UNCHANGED << brokerVars, bufVars, chunkReq, pubReq, SESSION_TIMELINE, BUFFERS, subs, sse, chunkLog, resp, nChunks, subHist >>
    /\ LET w       == ws[c]
           p       == w.pending[1]
           buf1    == ws_promote(w)
           full_en == CaptionBuffer_flush_en(buf1)
           seg     == CaptionBuffer_flush_seg(buf1)
           text_ko == translate_text(full_en)
           w2      == ws_make_cur([w EXCEPT !.buffer = buf1, !.timeline_pos = p.t1])
       IN  IF CaptionBuffer_ready(buf1)
           THEN IF full_en # << >> /\ ~tr_ok
                THEN \* translate_text raises: error frame, the handler returns
                     /\ wsOut' = [wsOut EXCEPT ![c] =
                                    @ \o << Frame("en_final", p), ErrorFrame >>]
                     /\ ws' = [ws EXCEPT ![c] = WsFailed(w.sid)]
                     /\ UNCHANGED << store, wsLog >>
                ELSE /\ wsOut' = [wsOut EXCEPT ![c] = Append(@, Frame("en_final", p))]
                     /\ store' = SessionStore_append(store, w.sid, seg[1], seg[2],
                                                     full_en, text_ko)
                     /\ ws' = [ws EXCEPT ![c] =
                                 [w EXCEPT !.buffer = CaptionBuffer_flush(buf1),
                                           !.batch = Some([type |-> "ko_batch",
                                               window |-> [t0 |-> seg[1], t1 |-> seg[2]],
                                               text_en |-> full_en,
                                               text_ko |-> text_ko]),
                                           !.pc = "send_batch"]]
                     /\ wsLog' = wsLog
           ELSE /\ wsOut' = [wsOut EXCEPT ![c] = Append(@, Frame("en_final", p))]
                /\ ws' = [ws EXCEPT ![c] = w2]
                /\ wsLog' = [wsLog EXCEPT ![c] = Append(@, WsLogEntry(w2))]
                /\ store' = store

\* the ko_batch frame was sent; lines 266-272
ws_sent_batch(c) ==
    /\ ws[c].pc = "send_batch"
    /\ LET w  == ws[c]
           w2 == ws_make_cur([w EXCEPT !.timeline_pos = w.pending[1].t1,
                                       !.batch = None])
       IN  /\ wsOut' = [wsOut EXCEPT ![c] = Append(@, w.batch[1])]
           /\ ws' = [ws EXCEPT ![c] = w2]
           /\ wsLog' = [wsLog EXCEPT ![c] = Append(@, WsLogEntry(w2))]
    /\ UNCHANGED << httpVars, brokerVars, bufVars, chunkReq, pubReq, subs, sse, nChunks, subHist >>

\* the en_partial frame was sent; lines 279-280
ws_sent_partial(c) ==
    /\ ws[c].pc = "send_partial"
    /\ LET w == ws[c]
       IN  /\ wsOut' = [wsOut EXCEPT ![c] = Append(@, Frame("en_partial", w.cur[1]))]
           /\ ws' = [ws EXCEPT ![c] =
                       [w EXCEPT !.pending = w.cur, !.seq = w.seq + 1,
                                 !.cur = None, !.text_en = << >>,
                                 !.seg_t0 = 0, !.seg_t1 = 0, !.pc = "recv"]]
    /\ UNCHANGED << httpVars, brokerVars, bufVars, chunkReq, pubReq, subs, sse, wsLog, nChunks, subHist >>

\* except WebSocketDisconnect: lines 283-289
ws_on_disconnect(c, tr_ok) ==
    LET w       == ws[c]
        buf1    == IF PendingHasText(w) THEN ws_promote(w) ELSE w.buffer
        full_en == CaptionBuffer_flush_en(buf1)
        seg     == CaptionBuffer_flush_seg(buf1)
    IN  /\ IF buf1.en_parts # << >>
           THEN IF full_en # << >> /\ ~tr_ok
                THEN \* translate_text raises inside the except clause: the
                     \* exception leaves the handler, nothing is appended
                     /\ store' = store
                     /\ ws' = [ws EXCEPT ![c] = WsFailed(w.sid)]
                ELSE /\ store' = SessionStore_end(
                                    SessionStore_append(store, w.sid, seg[1], seg[2],
                                        full_en, translate_text(full_en)), w.sid)
                     /\ ws' = [ws EXCEPT ![c] = WsDone(w.sid)]
           ELSE /\ store' = SessionStore_end(store, w.sid)
                /\ ws' = [ws EXCEPT ![c] = WsDone(w.sid)]
        /\ UNCHANGED << brokerVars, bufVars, chunkReq, pubReq, SESSION_TIMELINE, BUFFERS, subs, sse,
                        wsOut, wsLog, chunkLog, resp, nChunks, subHist >>

\* the client closes while the handler waits in receive_bytes
ws_disconnect(c, tr_ok) ==
    /\ ws[c].pc = "recv"
    /\ ws_on_disconnect(c, tr_ok)

\* the client is gone while the handler sends, and the send raises
\* WebSocketDisconnect (Starlette turns the server's OSError into it)
ws_send_disconnect(c, tr_ok) ==
    /\ ws[c].pc \in SendPcs
    /\ ws_on_disconnect(c, tr_ok)

\* the send raises another exception: except Exception, whose own error
\* frame cannot be sent either
ws_send_error(c) ==
    /\ ws[c].pc \in SendPcs
    /\ ws' = [ws EXCEPT ![c] = WsFailed(ws[c].sid)]
    /\ UNCHANGED << httpVars, brokerVars, bufVars, chunkReq, pubReq, subs, sse, wsOut, wsLog, nChunks, subHist >>

(***************************************************************************)
(* A CaptionBuffer driven directly, with any order of add/ready/flush.     *)
(***************************************************************************)
BufTexts ==
    { << >>, << "h", "i" >>, << "o", "k", "." >>, Rep(22, "m"),
      Rep(16, "w") \o << "!" >>, Rep(17, "v") \o << "?" >> }

BufSpans == { << 0, 5000 >>, << 5000, 15000 >>, << 7000, 2000 >> }

BufParams ==
    { << WsMinWindow, WsMaxWindow, WsMinChars >>,
      << DefMinWindow, DefMaxWindow, DefMinChars >> }

cb_add(seg_t0, seg_t1, text_en) ==
    /\ Len(cbHist) < MaxParts
    /\ cb' = CaptionBuffer_add(cb, seg_t0, seg_t1, text_en)
    /\ cbRet' = [op |-> "add", pre |-> cb]
    /\ cbHist' = Append(cbHist, [t0 |-> seg_t0, t1 |-> seg_t1, text_en |-> text_en])
    /\ UNCHANGED << appVars, chunkReq, pubReq, subHist >>

cb_ready ==
    /\ cbRet' = [op |-> "ready", pre |-> cb, value |-> CaptionBuffer_ready(cb)]
    /\ UNCHANGED << cb, cbHist, appVars, chunkReq, pubReq, subHist >>

cb_flush ==
    /\ cbRet' = [op |-> "flush", pre |-> cb, seg |-> CaptionBuffer_flush_seg(cb),
                 en |-> CaptionBuffer_flush_en(cb)]
    /\ cb' = CaptionBuffer_flush(cb)
    /\ UNCHANGED << cbHist, appVars, chunkReq, pubReq, subHist >>

(***************************************************************************)
(* The EventBroker driven directly: subscribe, unsubscribe and publish in  *)
(* any order.  subHist remembers, for each queue, the session it was       *)
(* subscribed to and the last message id before it was subscribed and      *)
(* before it was unsubscribed.                                             *)
(***************************************************************************)
SubNew == [state |-> "new", sid |-> "a", since |-> 0, until |-> 0]

EventTypes == {"en_partial", "ko_batch"}

\* q = await BROKER.subscribe(sid): a new queue
broker_subscribe(q, sid) ==
    /\ subHist[q].state = "new"
    /\ subs' = EventBroker_subscribe(subs, sid, q)
    /\ subHist' = [subHist EXCEPT ![q] =
                     [state |-> "on", sid |-> sid, since |-> msg_id, until |-> 0]]
    /\ UNCHANGED << httpVars, brokerVars, sse, wsVars, nChunks, bufVars, chunkReq, pubReq >>

\* await BROKER.unsubscribe(sid, q), for any queue and any session
broker_unsubscribe(q, sid) ==
    /\ subs' = EventBroker_unsubscribe(subs, sid, q)
    /\ subHist' = IF subHist[q].state = "on" /\ subHist[q].sid = sid
                  THEN [subHist EXCEPT ![q].state = "off", ![q].until = msg_id]
                  ELSE subHist
    /\ UNCHANGED << httpVars, brokerVars, sse, wsVars, nChunks, bufVars, chunkReq, pubReq >>

\* await BROKER.publish(sid, event_type, data)
broker_publish(sid, event_type) ==
    /\ msg_id < MaxPublish
    /\ SetBroker(EventBroker_publish(Broker, subs, sid, event_type,
                                     [text_en |-> << >>]))
    /\ UNCHANGED << httpVars, subs, sse, wsVars, nChunks, subHist, bufVars, chunkReq, pubReq >>

(***************************************************************************)
(* publish() step by step, called by several tasks of the one event loop.  *)
(* The coroutine takes the snapshot and the id inside `async with          *)
(* self._lock` and enqueues after the block.  pubReq[p].pc is where the    *)
(* call of task p stands: "called" before the lock, "enqueue" after it.    *)
(***************************************************************************)
Pub == {1, 2}

PubNew == [pc |-> "idle", sid |-> "a", qs |-> {}, msg |-> None]

\* a lock release that always gives the loop away
release_suspends_always == TRUE

\* Does leaving `async with self._lock` suspend the task?  __aexit__ calls
\* release(), which is not a coroutine, and the for loop that follows holds
\* no await: the task keeps the loop from the lock to the last put_nowait.
release_suspends == FALSE

\* no other task stands between the lock and its enqueue, or such a task
\* has given the loop away
LoopFree(p) ==
    release_suspends \/ \A o \in Pub \ {p} : pubReq[o].pc # "enqueue"

\* the loop may run a task that is not one of the publishers
LoopIdle == release_suspends \/ \A p \in Pub : pubReq[p].pc # "enqueue"

\* a handler of task p is about to call BROKER.publish(sid, event_type, data)
pub_call(p, sid, event_type) ==
    /\ pubReq[p].pc = "idle"
    /\ LoopFree(p)
    /\ pubReq' = [pubReq EXCEPT ![p] =
                    [pc |-> "called", sid |-> sid, qs |-> {},
                     msg |-> Some([type |-> event_type,
                                   data |-> [text_en |-> << >>], id |-> 0])]]
    /\ UNCHANGED << appVars, subHist, bufVars, chunkReq >>

\* lines 150-153: under the lock, the snapshot and the id.  The lock is
\* free: no task holds it across a suspension.
pub_lock(p) ==
    /\ pubReq[p].pc = "called"
    /\ LoopFree(p)
    /\ msg_id < MaxPublish
    /\ msg_id' = EventBroker_next_id(msg_id)
    /\ pubReq' = [pubReq EXCEPT
                    ![p].pc = "enqueue",
                    ![p].qs = EventBroker_snapshot(subs, pubReq[p].sid),
                    ![p].msg = Some([pubReq[p].msg[1] EXCEPT
                                       !.id = EventBroker_next_id(msg_id)])]
    /\ UNCHANGED << httpVars, subs, queues, published, sse, wsVars, nChunks,
                    subHist, bufVars, chunkReq >>

\* lines 154-158: put_nowait on every queue of the snapshot
pub_enqueue(p) ==
    /\ pubReq[p].pc = "enqueue"
    /\ LoopFree(p)
    /\ queues' = [q \in QID |-> IF q \in pubReq[p].qs
                                THEN Append(queues[q], pubReq[p].msg[1])
                                ELSE queues[q]]
    /\ published' = Append(published, [sid |-> pubReq[p].sid,
                                       msg |-> pubReq[p].msg[1]])
    /\ pubReq' = [pubReq EXCEPT ![p] = PubNew]
    /\ UNCHANGED << httpVars, subs, msg_id, sse, wsVars, nChunks, subHist,
                    bufVars, chunkReq >>

\* q = await BROKER.subscribe(sid) by another task, when the loop runs it:
\* a new, empty queue
pub_subscribe(q, sid) ==
    /\ LoopIdle
    /\ queues[q] = << >>
    /\ \A s \in SID : q \notin subs[s]
    /\ subs' = EventBroker_subscribe(subs, sid, q)
    /\ UNCHANGED << httpVars, brokerVars, sse, wsVars, nChunks, subHist,
                    bufVars, chunkReq, pubReq >>

\* await BROKER.unsubscribe(sid, q) by another task, when the loop runs it
pub_unsubscribe(q, sid) ==
    /\ LoopIdle
    /\ q \in subs[sid]
    /\ subs' = EventBroker_unsubscribe(subs, sid, q)
    /\ UNCHANGED << httpVars, brokerVars, sse, wsVars, nChunks, subHist,
                    bufVars, chunkReq, pubReq >>

(***************************************************************************)
(* Specifications.                                                         *)
(***************************************************************************)
AppInit ==
    /\ store = [s \in SID |-> None]
    /\ SESSION_TIMELINE = [s \in SID |-> None]
    /\ BUFFERS = [s \in SID |-> None]
    /\ chunkLog = [s \in SID |-> << >>]
    /\ resp = NoResponse
    /\ subs = [s \in SID |-> {}]
    /\ msg_id = 0
    /\ queues = [q \in QID |-> << >>]
    /\ published = << >>
    /\ sse = [q \in QID |-> SseNew]
    /\ ws = [c \in Conn |-> WsNew]
    /\ wsOut = [c \in Conn |-> << >>]
    /\ wsLog = [c \in Conn |-> << >>]
    /\ nChunks = 0
    /\ chunkReq = ChunkReqNew
    /\ pubReq = [p \in Pub |-> PubNew]
    /\ subHist = [q \in QID |-> SubNew]

Init ==
    /\ AppInit
    /\ cb = CaptionBuffer_init(DefMinWindow, DefMaxWindow, DefMinChars)
    /\ cbRet = [op |-> "new"]
    /\ cbHist = << >>

\* the application: the REST handlers, the /events clients, the websockets
Next ==
    \/ \E sid \in SID : http_session_start(sid)
    \/ \E sid \in SID, in \in ChunkInputs : http_upload_chunk(sid, in[1], in[2], in[3])
    \/ \E sid \in SID, tr_ok \in BOOLEAN : http_session_stop(sid, tr_ok)
    \/ \E q \in SseIds, sid \in SID : sse_subscribe(q, sid)
    \/ \E q \in SseIds : sse_disconnect(q)
    \/ \E c \in Conn, sid \in SID : ws_accept(c, sid)
    \/ \E c \in Conn, asr \in AsrResults : ws_receive(c, asr)
    \/ \E c \in Conn, tr_ok \in BOOLEAN : ws_sent_final(c, tr_ok)
    \/ \E c \in Conn : ws_sent_batch(c)
    \/ \E c \in Conn : ws_sent_partial(c)
    \/ \E c \in Conn, tr_ok \in BOOLEAN : ws_disconnect(c, tr_ok)
    \/ \E c \in Conn, tr_ok \in BOOLEAN : ws_send_disconnect(c, tr_ok)
    \/ \E c \in Conn : ws_send_error(c)

Spec == Init /\ [][Next]_vars

\* the EventBroker alone
NextBroker ==
    \/ \E q \in QID, sid \in SID : broker_subscribe(q, sid)
    \/ \E q \in QID, sid \in SID : broker_unsubscribe(q, sid)
    \/ \E sid \in SID, t \in EventTypes : broker_publish(sid, t)

SpecBroker == Init /\ [][NextBroker]_vars

\* the /chunk handlers of concurrent requests, step by step
NextChunk ==
    \/ \E sid \in SID : http_session_start(sid)
    \/ \E r \in Req, sid \in SID : chunk_arrive(r, sid)
    \/ \E r \in Req, blob_ok \in BOOLEAN, asr \in AsrResults :
          chunk_begin(r, blob_ok, asr)
    \/ \E r \in Req, tr_ok \in BOOLEAN : chunk_after_partial(r, tr_ok)
    \/ \E r \in Req : chunk_after_batch(r)

SpecChunk == Init /\ [][NextChunk]_vars

\* publish() called by concurrent tasks, with subscribers coming and going
NextPublish ==
    \/ \E p \in Pub, sid \in SID, t \in EventTypes : pub_call(p, sid, t)
    \/ \E p \in Pub : pub_lock(p)
    \/ \E p \in Pub : pub_enqueue(p)
    \/ \E q \in QID, sid \in SID : pub_subscribe(q, sid)
    \/ \E q \in QID, sid \in SID : pub_unsubscribe(q, sid)

SpecPublish == Init /\ [][NextPublish]_vars

\* a CaptionBuffer alone
InitBuf ==
    /\ AppInit
    /\ \E p \in BufParams : cb = CaptionBuffer_init(p[1], p[2], p[3])
    /\ cbRet = [op |-> "new"]
    /\ cbHist = << >>

NextBuf ==
    \/ \E sp \in BufSpans, t \in BufTexts : cb_add(sp[1], sp[2], t)
    \/ cb_ready
    \/ cb_flush

SpecBuf == InitBuf /\ [][NextBuf]_vars

(***************************************************************************)
(* Properties.                                                             *)
(***************************************************************************)
RECURSIVE SumEnds(_, _)
\* the sum of the local end offsets of the first k chunks of a log
SumEnds(log, k) == IF k = 0 THEN 0 ELSE log[k].e + SumEnds(log, k - 1)

RECURSIVE SumDur(_, _)
\* the sum of the durations (global end - global start) of the first k
\* chunks of a log
SumDur(log, k) ==
    IF k = 0 THEN 0 ELSE (log[k].t1 - log[k].t0) + SumDur(log, k - 1)

RECURSIVE SumTextDur(_, _)
\* the same sum over the chunks with text, the ones that become final
SumTextDur(log, k) ==
    IF k = 0 THEN 0
    ELSE (IF log[k].text_en # << >> THEN log[k].t1 - log[k].t0 ELSE 0)
         + SumTextDur(log, k - 1)

RECURSIVE LastTextEnd(_, _)
\* the global end of the last of the first k chunks that has text, 0 if none
LastTextEnd(log, k) ==
    IF k = 0 THEN 0
    ELSE IF log[k].text_en # << >> THEN log[k].t1 ELSE LastTextEnd(log, k - 1)

NonDecreasing(log, n) ==
    n > 1 => log[n - 1].t0 <= log[n].t0 /\ log[n - 1].t1 <= log[n].t1

PendingOf(sid) ==
    { c \in Conn : /\ ws[c].pc \notin {"new", "done", "failed"}
                   /\ ws[c].sid = sid
                   /\ ws[c].pending # None }

\* the en_final frames a connection was sent for a sequence number
FinalsOf(c, seq) ==
    { i \in 1..Len(wsOut[c]) : /\ wsOut[c][i].type = "en_final"
                               /\ wsOut[c][i].seq = seq }

\* C2 as stated (its safety part): at most one fragment is pending per
\* session id, counting every connection that ingests under that id, and no
\* pending fragment is emitted as en_final more than once.
C2_OnePending ==
    /\ \A sid \in SID : Cardinality(PendingOf(sid)) <= 1
    /\ \A c \in Conn : \A n \in 1..MaxChunks : Cardinality(FinalsOf(c, n)) <= 1

\* what a queue must hold: the messages published for the session it was
\* subscribed to, after it was subscribed and before it was unsubscribed, in
\* the order they were published
ExpectedQueue(q) ==
    LET h   == subHist[q]
        sel == SelectSeq(published,
                   LAMBDA m : /\ h.state # "new"
                              /\ m.sid = h.sid
                              /\ m.msg.id > h.since
                              /\ (h.state = "on" \/ m.msg.id <= h.until))
    IN  [i \in 1..Len(sel) |-> sel[i].msg]

\* C3: publish delivers each message exactly once to every queue subscribed
\* to its session at the time of the publish, and to no other queue: not to
\* the queues of other sessions, not to queues subscribed later, not to
\* queues already unsubscribed.
C3_Delivery == \A q \in QID : queues[q] = ExpectedQueue(q)

\* a queue subscribed after a message of its session was published has
\* received a later one, while another session also had a message
C3_Witness ==
    \E q \in QID :
        /\ subHist[q].state # "new"
        /\ Len(queues[q]) >= 1
        /\ \E i \in 1..Len(published) :
              /\ published[i].sid = subHist[q].sid
              /\ published[i].msg.id <= subHist[q].since
        /\ \E j \in 1..Len(published) : published[j].sid # subHist[q].sid

ReadyCondition(b) ==
    LET n == Len(CaptionBuffer_joined_en(b))
    IN  /\ n >= b.min_chars
        /\ \/ b.accum_sec >= b.max_window
           \/ /\ b.accum_sec >= b.min_window
              /\ EndsWithPunct(CaptionBuffer_joined_en(b))

\* C5: in every state of a buffer, ready() is true exactly when the joined
\* text has at least min_chars characters and either the accumulated
\* duration has reached max_window_seconds, or it has reached
\* min_window_seconds and the text ends with terminal punctuation; a text
\* shorter than min_chars makes it false whatever the duration.
C5_Ready ==
    /\ CaptionBuffer_ready(cb) <=> ReadyCondition(cb)
    /\ Len(CaptionBuffer_joined_en(cb)) < cb.min_chars => ~CaptionBuffer_ready(cb)
    /\ cbRet.op = "ready" => (cbRet.value <=> ReadyCondition(cbRet.pre))

\* ready() returned true on the soft trigger, below the hard cap
C5_Witness ==
    /\ cbRet.op = "ready"
    /\ cbRet.value
    /\ cbRet.pre.accum_sec < cbRet.pre.max_window
    /\ Len(cbRet.pre.en_parts) >= 2

\* C6 (amended): once the accumulated duration has reached
\* max_window_seconds, ready() is true even without terminal punctuation,
\* provided the joined text has at least min_chars characters; with a
\* shorter text it stays false however long the accumulated duration is.
C6_HardCap ==
    /\ (cb.accum_sec >= cb.max_window
        /\ Len(CaptionBuffer_joined_en(cb)) >= cb.min_chars)
           => CaptionBuffer_ready(cb)
    /\ (cb.accum_sec >= cb.max_window
        /\ Len(CaptionBuffer_joined_en(cb)) < cb.min_chars)
           => ~CaptionBuffer_ready(cb)
    /\ (cbRet.op = "ready"
        /\ cbRet.pre.accum_sec >= cbRet.pre.max_window
        /\ Len(CaptionBuffer_joined_en(cbRet.pre)) >= cbRet.pre.min_chars)
           => cbRet.value

\* ready() returned true at the hard cap for a text without punctuation
C6_Witness ==
    /\ cbRet.op = "ready"
    /\ cbRet.value
    /\ cbRet.pre.accum_sec >= cbRet.pre.max_window
    /\ ~EndsWithPunct(CaptionBuffer_joined_en(cbRet.pre))

\* C6 as stated: once fragments have been added until the accumulated
\* duration has reached max_window_seconds, ready() is true.
C6_Original ==
    /\ (cb.en_parts # << >> /\ cb.accum_sec >= cb.max_window)
           => CaptionBuffer_ready(cb)
    /\ (cbRet.op = "ready" /\ cbRet.pre.en_parts # << >>
        /\ cbRet.pre.accum_sec >= cbRet.pre.max_window) => cbRet.value

\* no fragment was ever added to the buffer: no add() was given a text
NeverAdded == \A i \in 1..Len(cbHist) : cbHist[i].text_en = << >>

\* C7: flush() leaves the buffer with no parts, accumulated duration 0 and
\* both timestamps None; on a buffer to which no fragment was ever added it
\* returns the span (0, 0) and the empty text.
C7_FlushResets ==
    cbRet.op = "flush" =>
        /\ cb.en_parts = << >>
        /\ cb.accum_sec = 0
        /\ cb.t0 = None
        /\ cb.t1 = None
        /\ NeverAdded => cbRet.seg = << 0, 0 >> /\ cbRet.en = << >>

\* flush() was called on a buffer that held two parts
C7_Witness ==
    /\ cbRet.op = "flush"
    /\ Len(cbRet.pre.en_parts) >= 2
    /\ cbRet.pre.accum_sec > 0
    /\ cbRet.seg # << 0, 0 >>

\* C8 as stated (its safety part): a termination that finds outstanding text
\* (/session/stop taking the session's buffer, or a websocket handler
\* finishing its disconnect clause) appends exactly one new Entry, and a
\* termination that finds none appends nothing.
C8_FlushOnce ==
    [][ /\ \A sid \in SID :
              (BUFFERS[sid] # None /\ BUFFERS'[sid] = None) =>
                  Len(Entries(sid))' = Len(Entries(sid))
                      + (IF BUFFERS[sid][1].en_parts # << >> THEN 1 ELSE 0)
        /\ \A c \in Conn :
              (ws[c].pc \in {"recv"} \cup SendPcs /\ ws'[c].pc = "done") =>
                  Len(Entries(ws[c].sid))' = Len(Entries(ws[c].sid))
                      + (IF PendingHasText(ws[c]) \/ ws[c].buffer.en_parts # << >>
                         THEN 1 ELSE 0)
      ]_vars

\* the ko_batch messages published for a session
KoPublished(sid) ==
    SelectSeq(published, LAMBDA m : m.sid = sid /\ m.msg.type = "ko_batch")

\* the ko_batch frames sent on the websockets of a session
KoFrames(sid) ==
    { p \in UNION { {c} \X (1..Len(wsOut[c])) : c \in Conn } :
          /\ ws[p[1]].pc # "new"
          /\ ws[p[1]].sid = sid
          /\ wsOut[p[1]][p[2]].type = "ko_batch" }

FinalsFor(c, j) ==
    { i \in 1..Len(wsOut[c]) :
          i > j /\ wsOut[c][i] = [wsOut[c][j] EXCEPT !.type = "en_final"] }

SeqStep(p, c) ==
    LET g_t0 == place(p.cursor, c.s)
        g_t1 == place(p.cursor, c.e)
        buf0 == IF p.buf = None
                THEN CaptionBuffer_init(WsMinWindow, WsMaxWindow, WsMinChars)
                ELSE p.buf[1]
        buf1 == CaptionBuffer_add(buf0, g_t0, g_t1, c.text_en)
        full == CaptionBuffer_flush_en(buf1)
        seg  == CaptionBuffer_flush_seg(buf1)
    IN  IF ~CaptionBuffer_ready(buf1)
        THEN [cursor |-> g_t1, buf |-> Some(buf1), entries |-> p.entries]
        ELSE [cursor |-> g_t1, buf |-> Some(CaptionBuffer_flush(buf1)),
              entries |-> IF c.ok
                          THEN Append(p.entries,
                                 [t0 |-> seg[1], t1 |-> seg[2], text_en |-> full,
                                  text_ko |-> translate_text(full)])
                          ELSE p.entries]

\* the cursor, buffer and entry log of a session started by /session/start
\* after the first k requests of log were handled one after the other
RECURSIVE SeqIngest(_, _)
SeqIngest(log, k) ==
    IF k = 0 THEN [cursor |-> 0, buf |-> None, entries |-> << >>]
    ELSE SeqStep(SeqIngest(log, k - 1), log[k])

\* the requests whose handler stands between two of its steps
MidHandler == { r \in Req : chunkReq.at[r].pc \in {"publish_partial", "publish_batch"} }

\* C11: /chunk requests in flight at the same time do not interleave: at most
\* one handler stands between two of its steps, the fragment it carries is
\* the last one placed on the timeline of its session, and the cursor, buffer
\* and entry log of every session equal those of handling its requests one
\* after the other in the order of their placement.
C11_Serialized ==
    /\ Cardinality(MidHandler) <= 1
    /\ \A sid \in SID :
          LET n    == Len(chunkLog[sid])
              mid  == { r \in MidHandler : chunkReq.at[r].sid = sid }
              done == IF \E r \in mid : chunkReq.at[r].pc = "publish_partial"
                      THEN n - 1 ELSE n
          IN  /\ \A r \in mid : chunkReq.at[r].idx = n
              /\ \A k \in 1..n :
                    /\ chunkLog[sid][k].t0 = SeqIngest(chunkLog[sid], k - 1).cursor
                                                 + chunkLog[sid][k].s
                    /\ chunkLog[sid][k].t1 = SeqIngest(chunkLog[sid], k).cursor
              /\ OrZero(SESSION_TIMELINE[sid]) = SeqIngest(chunkLog[sid], n).cursor
              /\ BUFFERS[sid] = SeqIngest(chunkLog[sid], done).buf
              /\ Entries(sid) = SeqIngest(chunkLog[sid], done).entries

\* two /chunk requests of one session are in flight at the same time: the
\* handler of one stands at its second publish while the other has not run
C11_Witness ==
    \E ra, rb \in Req :
        /\ ra # rb
        /\ chunkReq.at[ra].sid = chunkReq.at[rb].sid
        /\ chunkReq.at[ra].pc = "publish_batch"
        /\ chunkReq.at[rb].pc = "received"

(***************************************************************************)
(* C12.                                                                     *)
(***************************************************************************)
\* the locals of a /ws/stream handler and the entry log after the first k
\* chunks of log were received on a connection that ingests alone
RECURSIVE WsAlone(_, _)
WsAlone(log, k) ==
    IF k = 0
    THEN [timeline_pos |-> 0, pending |-> None, seq |-> 1, entries |-> << >>,
          buffer |-> CaptionBuffer_init(WsMinWindow, WsMaxWindow, WsMinChars)]
    ELSE LET p    == WsAlone(log, k - 1)
             c    == log[k]
             prom == p.pending # None /\ p.pending[1].text_en # << >>
             buf1 == IF prom
                     THEN CaptionBuffer_add(p.buffer, p.pending[1].t0,
                                            p.pending[1].t1, p.pending[1].text_en)
                     ELSE p.buffer
             rdy  == prom /\ CaptionBuffer_ready(buf1)
             full == CaptionBuffer_flush_en(buf1)
             seg  == CaptionBuffer_flush_seg(buf1)
             pos  == IF prom THEN p.pending[1].t1 ELSE p.timeline_pos
         IN  [timeline_pos |-> pos,
              pending |-> Some([seq |-> p.seq, t0 |-> r2(place(pos, c.s)),
                                t1 |-> r2(place(pos, c.e)), text_en |-> c.text_en]),
              seq |-> p.seq + 1,
              buffer |-> IF rdy THEN CaptionBuffer_flush(buf1) ELSE buf1,
              entries |-> IF rdy
                          THEN Append(p.entries,
                                 [t0 |-> seg[1], t1 |-> seg[2], text_en |-> full,
                                  text_ko |-> translate_text(full)])
                          ELSE p.entries]

\* connection c ingests for session sid
ConnOf(w, c, sid) == w[c].pc # "new" /\ w[c].sid = sid

\* the step changes the cursor, the buffer, the entries or a handler of sid
Touched(sid) ==
    \/ SESSION_TIMELINE'[sid] # SESSION_TIMELINE[sid]
    \/ BUFFERS'[sid] # BUFFERS[sid]
    \/ store'[sid] # store[sid]
    \/ \E c \in Conn : /\ ConnOf(ws, c, sid) \/ ConnOf(ws', c, sid)
                       /\ ws'[c] # ws[c]

\* the cursor, buffer and entries of session sid
HttpState(sid) ==
    [cursor |-> OrZero(SESSION_TIMELINE[sid]), buf |-> BUFFERS[sid],
     entries |-> Entries(sid)]

\* a /chunk step takes a session from its own state to the state that
\* handling the chunk alone gives
AloneStep ==
    \A sid \in SID :
        Len(chunkLog'[sid]) = Len(chunkLog[sid]) + 1 =>
            HttpState(sid)' = SeqStep(HttpState(sid),
                                      chunkLog'[sid][Len(chunkLog'[sid])])

\* a /ws/stream handler that is the only one of its session holds the locals
\* and the entries of ingesting its own chunks alone
AloneState ==
    \A c \in Conn :
        (/\ ws[c].pc = "recv"
         /\ \A d \in Conn \ {c} : ~ConnOf(ws, d, ws[c].sid)) =>
            LET f == WsAlone(wsLog[c], Len(wsLog[c]))
            IN  /\ ws[c].timeline_pos = f.timeline_pos
                /\ ws[c].pending = f.pending
                /\ ws[c].buffer = f.buffer
                /\ Entries(ws[c].sid) = f.entries

MustReject(sid, blob_ok, asr) ==
    SESSION_TIMELINE[sid] = None \/ ~blob_ok \/ asr = AsrFail

\* C13: a /chunk request for a session id that was never started or was
\* stopped is answered 'invalid session_id'; that request, a request with
\* less than 100 bytes of audio and a request whose transcription fails leave
\* the cursor map, the buffer map, the session store and every subscriber
\* queue unchanged, and create no session.
C13_RejectedNoEffect ==
    [][\A sid \in SID, blob_ok \in BOOLEAN, asr \in AsrResults :
          (/\ MustReject(sid, blob_ok, asr)
           /\ \E tr_ok \in BOOLEAN : http_upload_chunk(sid, blob_ok, asr, tr_ok))
              => /\ UNCHANGED << SESSION_TIMELINE, BUFFERS, store, queues,
                                 published, msg_id >>
                 /\ resp' \in {"invalid session_id", "no content", "ASR error"}
                 /\ SESSION_TIMELINE[sid] = None => resp' = "invalid session_id"
      ]_vars

\* a /chunk request was rejected for its audio while a session held a window
\* buffer and a subscriber held undelivered events; another session is
\* stopped, so that requests for it are rejected too
C13_Witness ==
    /\ resp \in {"no content", "ASR error"}
    /\ \E sid \in SID : BUFFERS[sid] # None
    /\ \E sid \in SID : store[sid] # None /\ SESSION_TIMELINE[sid] = None
    /\ \E q \in QID : queues[q] # << >>

(***************************************************************************)
(* C14.                                                                     *)
(***************************************************************************)
\* session sid has ended: its /session/stop has completed, or a WebSocket
\* of it has disconnected and its handler has run SESSION.end
Ended(sid) ==
    \/ /\ store[sid] # None
       /\ SESSION_TIMELINE[sid] = None
       /\ \A c \in Conn : ws[c].pc = "new"
    \/ \E c \in Conn : ws[c].pc = "done" /\ ws[c].sid = sid

\* C14: once a session has ended no later step mutates it: no Entry is
\* appended to its log, no cursor or window buffer is created or changed
\* for it, and no event is published for it.
C14_NoMutationAfterEnd ==
    [][\A sid \in SID :
          Ended(sid) =>
              /\ store'[sid] = store[sid]
              /\ SESSION_TIMELINE'[sid] = SESSION_TIMELINE[sid]
              /\ BUFFERS'[sid] = BUFFERS[sid]
              /\ \A n \in (Len(published) + 1)..Len(published') :
                    published'[n].sid # sid
              /\ \A c \in Conn :
                    (ws'[c].pc # "new" /\ ws'[c].sid = sid) =>
                        (ws'[c].buffer = ws[c].buffer
                         /\ ws'[c].timeline_pos = ws[c].timeline_pos)
      ]_vars

(***************************************************************************)
(* C15.                                                                     *)
(***************************************************************************)
\* the step sends an error frame on connection c
SendsError(c) ==
    /\ Len(wsOut'[c]) > Len(wsOut[c])
    /\ wsOut'[c][Len(wsOut'[c])].type = "error"

\* C15: an error while a chunk is ingested on a WebSocket is reported as an
\* error frame and does not end the session: the handler goes on to receive
\* the next chunk with its pending fragment, seq counter, timeline cursor and
\* window buffer unchanged.
C15_ErrorNonFatal ==
    [][\A c \in Conn :
          SendsError(c) =>
              /\ ws'[c].pc = "recv"
              /\ ws'[c].pending = ws[c].pending
              /\ ws'[c].seq = ws[c].seq
              /\ ws'[c].timeline_pos = ws[c].timeline_pos
              /\ ws'[c].buffer = ws[c].buffer
      ]_vars

(***************************************************************************)
(* C16.                                                                     *)
(***************************************************************************)
ProbeEntry == [t0 |-> 0, t1 |-> 1000, text_en |-> << "o", "k", "." >>,
               text_ko |-> << "k" >>]

\* start, append, end and get applied to the store as it is
StoreOps ==
    \A sid \in SID :
        LET once  == SessionStore_start(store, sid)
            twice == SessionStore_start(once, sid)
            app   == SessionStore_append(store, sid, ProbeEntry.t0, ProbeEntry.t1,
                                         ProbeEntry.text_en, ProbeEntry.text_ko)
        IN  /\ twice = once
            /\ store[sid] # None => once = store
            /\ store[sid] = None =>
                  /\ once[sid][1].entries = << >>
                  /\ app[sid][1].entries = << ProbeEntry >>
            /\ store[sid] # None =>
                  /\ app[sid][1].entries = Append(store[sid][1].entries, ProbeEntry)
                  /\ app[sid][1].created_at = store[sid][1].created_at
            /\ \A other \in SID \ {sid} :
                  once[other] = store[other] /\ app[other] = store[other]
            /\ SessionStore_end(store, sid) = store
            /\ SessionStore_get(store, sid).entries = Entries(sid)

\* the step keeps every session, its creation time and every Entry it has
StoreGrows ==
    \A sid \in SID :
        store[sid] # None =>
            /\ store'[sid] # None
            /\ store'[sid][1].created_at = store[sid][1].created_at
            /\ Len(Entries(sid)') \in { Len(Entries(sid)), Len(Entries(sid)) + 1 }
            /\ SubSeq(Entries(sid)', 1, Len(Entries(sid))) = Entries(sid)

\* C16: the entry log of a session only grows by appending.  start on an
\* existing session leaves entries and creation time as they are (twice is
\* once), append on an unknown id creates the session first, and no step of
\* the program removes, reorders or changes an Entry already appended.
C16_AppendOnly ==
    /\ []StoreOps
    /\ [][StoreGrows]_vars

\* a session received a second Entry: append ran start on a session that
\* already held one
C16_Witness == \E sid \in SID : Len(Entries(sid)) >= 2

Stopped(sid) ==
    /\ store[sid] # None
    /\ SESSION_TIMELINE[sid] = None
    /\ \A c \in Conn : ws[c].pc = "new"

\* C18: session termination releases the subscription set: once the
\* /session/stop of a session has completed, the broker holds no subscriber
\* queue registered for that session.
C18_StopReleasesSubs ==
    [][\A sid \in SID : (~Stopped(sid) /\ Stopped(sid)') => subs'[sid] = {}]_vars

(***************************************************************************)
(* C19.                                                                     *)
(***************************************************************************)
\* the joined text must get a period
NeedsPeriod(j) ==
    /\ j # << >>
    /\ j[Len(j)] \notin {".", "?", "!"}
    /\ Len(j) > 40

\* C19: flush() returns the joined text with one period appended exactly
\* when the joined text is non-empty, does not end in '.', '?' or '!' and is
\* longer than 40 characters; otherwise it returns the joined text unchanged.
C19_FlushPeriod ==
    cbRet.op = "flush" =>
        LET j == CaptionBuffer_joined_en(cbRet.pre)
        IN  cbRet.en = IF NeedsPeriod(j) THEN j \o << "." >> ELSE j

\* flush() has appended the period to a joined text of 41 characters
C19_Witness ==
    /\ cbRet.op = "flush"
    /\ Len(CaptionBuffer_joined_en(cbRet.pre)) = 41
    /\ cbRet.en = CaptionBuffer_joined_en(cbRet.pre) \o << "." >>

(***************************************************************************)
(* C20.                                                                     *)
(***************************************************************************)
\* the texts, as the window keeps them, of the fragments a..b of log that
\* have a text
RECURSIVE FragmentTexts(_, _, _)
FragmentTexts(log, a, b) ==
    IF a > b THEN << >>
    ELSE IF log[b].text_en = << >> THEN FragmentTexts(log, a, b - 1)
    ELSE Append(FragmentTexts(log, a, b - 1), Strip(log[b].text_en))

\* the en_final frames of the fragments 1..b of log that have a text
RECURSIVE FragmentFinals(_, _)
FragmentFinals(log, b) ==
    IF b = 0 THEN << >>
    ELSE IF log[b].text_en = << >> THEN FragmentFinals(log, b - 1)
    ELSE Append(FragmentFinals(log, b - 1),
                [t0 |-> log[b].t0, t1 |-> log[b].t1, text_en |-> log[b].text_en])

IsFinal(f) == f.type = "en_final"

\* the en_final frames connection c was sent, without their seq
FinalsSent(c) ==
    LET fs == SelectSeq(wsOut[c], IsFinal)
    IN  [i \in 1..Len(fs) |->
            [t0 |-> fs[i].t0, t1 |-> fs[i].t1, text_en |-> fs[i].text_en]]

\* the window holds the texts of the fragments k..n of log, for some k
HoldsOnly(en_parts, log, n) ==
    \E k \in 1..(n + 1) : en_parts = FragmentTexts(log, k, n)

\* /ws/stream after chunk N: fragment N is pending, the fragments before it
\* that have a text are final, and the window holds only their texts
WsDelayLine ==
    \A c \in Conn :
        (ws[c].pc = "recv" /\ wsLog[c] # << >>) =>
            LET n    == Len(wsLog[c])
                last == wsLog[c][n]
            IN  /\ ws[c].pending # None
                /\ ws[c].pending[1].text_en = last.text_en
                /\ ws[c].pending[1].t0 = last.t0
                /\ ws[c].pending[1].t1 = last.t1
                /\ ws[c].pending[1].seq = n
                /\ FinalsSent(c) = FragmentFinals(wsLog[c], n - 1)
                /\ HoldsOnly(ws[c].buffer.en_parts, wsLog[c], n - 1)

\* POST /chunk: the fragment of a request that has a text is in the window
\* when the request returns, unless the window was closed by it
HttpNoDelay ==
    \A sid \in SID :
        (/\ Len(chunkLog'[sid]) = Len(chunkLog[sid]) + 1
         /\ chunkLog'[sid][Len(chunkLog'[sid])].text_en # << >>) =>
            LET parts == BUFFERS'[sid][1].en_parts
            IN  \/ parts = << >>
                \/ parts[Len(parts)] = chunkLog'[sid][Len(chunkLog'[sid])].text_en

PendingEmpty(c) ==
    /\ ws[c].pc \notin {"new", "done", "failed"}
    /\ ws[c].pending # None
    /\ ws[c].pending[1].text_en = << >>

\* the frames the step sends on connection c
NewFrames(c) == SubSeq(wsOut'[c], Len(wsOut[c]) + 1, Len(wsOut'[c]))

\* a step of a handler whose pending fragment has no text sends no en_final
\* and adds nothing to the window; if it ends the session, the Entry it
\* appends holds the window as it was
EmptyNotPromoted ==
    \A c \in Conn :
        (PendingEmpty(c) /\ ws'[c] # ws[c]) =>
            /\ \A i \in 1..Len(NewFrames(c)) : NewFrames(c)[i].type # "en_final"
            /\ ws'[c].pc \notin {"done", "failed"} => ws'[c].buffer = ws[c].buffer
            /\ Len(Entries(ws[c].sid)') > Len(Entries(ws[c].sid)) =>
                  /\ ws[c].buffer.en_parts # << >>
                  /\ Entries(ws[c].sid)'[Len(Entries(ws[c].sid)')].text_en
                         = CaptionBuffer_flush_en(ws[c].buffer)

\* a chunk without text becomes the pending fragment and takes a seq
EmptyIsPending ==
    \A c \in Conn :
        (/\ ws[c].pc = "send_partial"
         /\ ws[c].cur[1].text_en = << >>
         /\ ws'[c].pc = "recv") =>
            /\ ws'[c].pending = ws[c].cur
            /\ ws'[c].pending[1].seq = ws[c].seq
            /\ ws'[c].seq = ws[c].seq + 1

\* no window buffer holds an empty text part
NoEmptyPart ==
    /\ \A c \in Conn : \A i \in 1..Len(ws[c].buffer.en_parts) :
          ws[c].buffer.en_parts[i] # << >>
    /\ \A sid \in SID :
          BUFFERS[sid] # None =>
              \A i \in 1..Len(BUFFERS[sid][1].en_parts) :
                  BUFFERS[sid][1].en_parts[i] # << >>

\* C21: a chunk whose text is empty is stored as the pending fragment and
\* consumes a seq, but when the next chunk arrives or the session ends it is
\* neither sent as en_final nor added to the window buffer, and no window
\* buffer ever holds an empty text part.
C21_EmptyFragment ==
    /\ [][EmptyNotPromoted /\ EmptyIsPending]_vars
    /\ []NoEmptyPart

\* a chunk without text was pending when the next chunk arrived: both got
\* their en_partial with seq 1 and 2, no en_final was sent, the window is
\* empty
C21_Witness ==
    \E c \in Conn :
        /\ ws[c].pc = "recv"
        /\ Len(wsLog[c]) = 2
        /\ wsLog[c][1].text_en = << >>
        /\ wsLog[c][2].text_en # << >>
        /\ Len(wsOut[c]) = 2
        /\ wsOut[c][1].type = "en_partial" /\ wsOut[c][1].seq = 1
        /\ wsOut[c][2].type = "en_partial" /\ wsOut[c][2].seq = 2
        /\ ws[c].buffer.en_parts = << >>

(***************************************************************************)
(* C22.                                                                     *)
(***************************************************************************)
HasText(f) == f.text_en # << >>

\* the fragments the window holds: the last ones that were added with a
\* text, as many as the window has parts
InWindow ==
    LET h == SelectSeq(cbHist, HasText)
    IN  SubSeq(h, Len(h) - Len(cb.en_parts) + 1, Len(h))

\* the sum of max(0, end - start) over the fragments of fs
RECURSIVE OwnDurations(_)
OwnDurations(fs) ==
    IF fs = << >> THEN 0
    ELSE Max(0, fs[Len(fs)].t1 - fs[Len(fs)].t0)
             + OwnDurations(SubSeq(fs, 1, Len(fs) - 1))

WindowSums ==
    LET fs == InWindow
    IN  /\ Len(cb.en_parts) <= Len(SelectSeq(cbHist, HasText))
        /\ cb.accum_sec = OwnDurations(fs)
        /\ cb.t0 = IF fs = << >> THEN None ELSE Some(fs[1].t0)
        /\ cb.t1 = IF fs = << >> THEN None ELSE Some(fs[Len(fs)].t1)

\* C22: between two flushes the accumulated duration of the window is the
\* sum of max(0, end - start) over the fragments added since the last flush,
\* the window start is the start of the first of them and the window end the
\* end of the last; the accumulated duration decreases only by a flush.
C22_AccumulatedDuration ==
    /\ []WindowSums
    /\ [][cb'.accum_sec < cb.accum_sec => cbRet'.op = "flush"]_vars

\* a window of two fragments whose accumulated duration is not the distance
\* from its start to its end
C22_Witness ==
    /\ Len(cb.en_parts) = 2
    /\ cb.accum_sec > 0
    /\ cb.accum_sec # cb.t1[1] - cb.t0[1]
    /\ Len(cbHist) = 3

(***************************************************************************)
(* C23.                                                                     *)
(***************************************************************************)
\* the fragments announced for session sid: connection and frame index of
\* every en_partial sent under that id
FragmentsOf(sid) ==
    UNION { { << c, i >> : i \in { j \in 1..Len(wsOut[c]) :
                                      wsOut[c][j].type = "en_partial" } } :
            c \in { d \in Conn : ws[d].pc # "new" /\ ws[d].sid = sid } }

\* C23: the sequence numbers of a session id start at 1 and grow by one per
\* chunk: the fragments of a session carry the numbers 1..n, each once.
C23_SeqPerSession ==
    \A sid \in SID :
        /\ \A f, g \in FragmentsOf(sid) :
              f # g => wsOut[f[1]][f[2]].seq # wsOut[g[1]][g[2]].seq
        /\ { wsOut[f[1]][f[2]].seq : f \in FragmentsOf(sid) }
               = 1..Cardinality(FragmentsOf(sid))

(***************************************************************************)
(* C24.                                                                     *)
(***************************************************************************)
\* C24: in every subscriber queue the events stand in strictly increasing id
\* order, also when several tasks call publish() at the same time: no order
\* of their steps puts a higher id before a lower one in a queue.
C24_QueueOrder ==
    \A q \in QID : \A i \in 1..Len(queues[q]) : \A j \in 1..Len(queues[q]) :
        i < j => queues[q][i].id < queues[q][j].id

\* two publish() calls for one session are in flight: one has taken its id
\* and its snapshot and is about to enqueue behind an earlier event, the
\* other has been called and waits for the loop
C24_Witness ==
    \E p, o \in Pub :
        /\ p # o
        /\ pubReq[p].pc = "enqueue"
        /\ pubReq[o].pc = "called"
        /\ pubReq[o].sid = pubReq[p].sid
        /\ \E q \in pubReq[p].qs : queues[q] # << >>


\* the source text `full_en` of a window of session sid is, after the step,
\* still in that window buffer `b` or the text of an Entry of the session
TextKept(full_en, b, sid) ==
    \/ CaptionBuffer_flush_en(b) = full_en
    \/ \E i \in 1..Len(Entries(sid)') : Entries(sid)'[i].text_en = full_en

\* a /chunk request whose window was flushed and whose translation failed
ChunkTranslateFailed(sid) ==
    /\ Len(chunkLog'[sid]) = Len(chunkLog[sid]) + 1
    /\ ~chunkLog'[sid][Len(chunkLog'[sid])].ok

\* the window that /chunk request flushed: the buffer it found, with the
\* chunk's text added
ChunkWindow(sid) ==
    LET e == chunkLog'[sid][Len(chunkLog'[sid])]
    IN  CaptionBuffer_add(
            IF BUFFERS[sid] = None
            THEN CaptionBuffer_init(WsMinWindow, WsMaxWindow, WsMinChars)
            ELSE BUFFERS[sid][1],
            e.t0, e.t1, e.text_en)

\* a /session/stop request that took the session's buffer and ended with a
\* 500: the translation of the remaining window failed
StopTranslateFailed(sid) ==
    /\ BUFFERS[sid] # None
    /\ BUFFERS'[sid] = None
    /\ resp' = "server error"

\* a websocket handler whose translation failed after it sent an en_final
\* frame and flushed its buffer: it answers with an error frame and returns
WsTranslateFailed(c) ==
    /\ ws[c].pc = "send_final"
    /\ ws'[c].pc = "failed"
    /\ Len(wsOut'[c]) = Len(wsOut[c]) + 2

\* C25 as stated: when the translation call fails for a window that was
\* flushed on the /chunk path, the /session/stop path or the WebSocket path,
\* the window's source text is afterwards still in the window buffer or
\* recorded in an Entry of the session log.
C25_FailureKeepsText ==
    [][ /\ \A sid \in SID :
              /\ ChunkTranslateFailed(sid) =>
                    /\ BUFFERS'[sid] # None
                    /\ TextKept(CaptionBuffer_flush_en(ChunkWindow(sid)),
                                BUFFERS'[sid][1], sid)
              /\ StopTranslateFailed(sid) =>
                    TextKept(CaptionBuffer_flush_en(BUFFERS[sid][1]),
                             IF BUFFERS'[sid] = None
                             THEN CaptionBuffer_init(WsMinWindow, WsMaxWindow,
                                                     WsMinChars)
                             ELSE BUFFERS'[sid][1], sid)
        /\ \A c \in Conn :
              WsTranslateFailed(c) =>
                  TextKept(CaptionBuffer_flush_en(ws_promote(ws[c])),
                           ws'[c].buffer, ws[c].sid)
      ]_vars

=============================================================================
